---- MODULE Spec2Model ----
(***************************************************************************)
(* Rate acquisition and reconciliation engine of ulauncher-elToque         *)
(* (src/main.py): the memory snapshot, the trend cache, the SQLite store   *)
(* (tables rates and metadata), fetch_exchange_rates, get_rates_from_db,   *)
(* store_rates_in_db, get_trend_data, the "db" commands clear, backup,     *)
(* restore and rebuild, the show-all-rates query with its offline fallback *)
(* and the change of the db_path preference with migrate_database.         *)
(*                                                                         *)
(* Dates are day numbers (the code's "%Y-%m-%d" strings are zero padded,   *)
(* so their string order, which the SQL range query uses, is the order of  *)
(* the days).  A currency->rate mapping (a Python dict, or the rows of one *)
(* date) is a function whose domain is the set of currencies present.      *)
(* Python's None is the empty sequence <<>> where a value v is <<v>>.      *)
(***************************************************************************)
EXTENDS Integers, Sequences, FiniteSets, TLC

\* ------------------------------------------------------------------ bounds
\* Day number of datetime.now(); the dates of the model are 0..Today.
Today == 2
\* The clock advances at most MaxTicks times.
MaxTicks == 1
\* Number of requests (resolve, trend, db command) in one run.
MaxOps == 2
\* Number of dates of one backfill whose forced fetch gives something other
\* than the full snapshot.
MaxFaults == 1
\* Number of database commands and store writes in one run of the commands.
MaxDbOps == 4
\* Number of requests in one run of trend requests.
MaxTrendOps == 3
\* Number of requests in one session of requests of every kind.
MaxSessOps == 3

\* --------------------------------------------------------- program constants
CACHE_DURATION == 300
\* One step of the clock: the cache duration, so that an entry is fresh in the
\* step it was made in and expired (age not below CACHE_DURATION) one step later.
TickLen == CACHE_DURATION
\* time.time() when the process starts: a positive number of seconds.
StartTime == TickLen

\* extension.currency_names.keys(): the tracked currencies (two of the five).
supported_currencies == {"USD", "MLC"}
\* Currency codes a trend query can be typed with: "GBP" is not tracked.
RequestCurrencies == supported_currencies \cup {"GBP"}
\* period_days values get_trend_data is called with (scaled down from 7..365).
Periods == {1, 2}
Dates == 0..Today

EmptyMap == [c \in {} |-> 0]
None == <<>>

VARIABLES
    rates,               \* table rates: date -> (currency -> rate), committed rows
    metadata,            \* table metadata: key -> value
    cached_data,         \* global cached_data
    cached_date,         \* global cached_date
    last_api_call_time,  \* global last_api_call_time
    trend_cache,         \* global trend_cache: <<currency, period>> -> entry
    now,                 \* time.time()
    ops,                 \* number of requests served
    last,                \* the last request: what it was called with and what it did
    prev,                \* the request before it
    up,                  \* a store_rates_in_db call in progress, statement by statement
    backup,              \* the file ~/eltoque_rates_backup.db: None, or a copy of the store
    other                \* the store file at the other db_path: None, or a database

vars == <<rates, metadata, cached_data, cached_date, last_api_call_time,
          trend_cache, now, ops, last, prev, up, backup, other>>

\* ------------------------------------------------------------ environment
\* response.json() of a successful call: a JSON object with key "tasas", or a
\* JSON array (decodable, but not of the expected shape).
Dict(tasas) == [type |-> "dict", tasas |-> tasas]
BadJson == [type |-> "list"]
\* The JSON object {}: a dict without keys, which Python takes for false;
\* data.get("tasas", {}) of it is {}.
EmptyJson == [type |-> "empty", tasas |-> EmptyMap]

Full1 == [c \in supported_currencies |-> 1]
OnlyUSD2 == [c \in {"USD"} |-> 2]
OnlyUSD1 == [c \in {"USD"} |-> 1]

\* What the environment does to one fetch_exchange_rates call: whether the
\* store read raises, what requests.get / raise_for_status / response.json()
\* give, and whether the store write raises.
\*   status "ok": data is the decoded body;  "http": raise_for_status raises
\*   HTTPError;  "network": requests.get raises;  "json": response.json() raises.
IO(read_fail, status, data, write_fail) ==
    [read_fail |-> read_fail, status |-> status, data |-> data, write_fail |-> write_fail]

IOs ==
    { IO(FALSE, "ok", Dict(Full1), FALSE),
      IO(FALSE, "ok", Dict(OnlyUSD2), FALSE),
      IO(FALSE, "ok", Dict(EmptyMap), FALSE),
      IO(FALSE, "ok", BadJson, FALSE),
      IO(FALSE, "ok", EmptyJson, FALSE),
      IO(FALSE, "ok", Dict(Full1), TRUE),
      IO(FALSE, "http", BadJson, FALSE),
      IO(FALSE, "network", BadJson, FALSE),
      IO(FALSE, "json", BadJson, FALSE),
      IO(TRUE, "ok", Dict(Full1), FALSE),
      IO(TRUE, "network", BadJson, FALSE) }

\* The outcomes of the forced calls of a backfill: the store is not read by a
\* forced call, and get_trend_data swallows every exception alike.
BackfillIOs == {io \in IOs : ~io.read_fail /\ io.status \in {"ok", "network"}}

\* The full snapshot
FullIO == IO(FALSE, "ok", Dict(Full1), FALSE)

\* Stores the process can start with (the store is durable: it holds what
\* earlier runs wrote): empty, one currency only on every day, only the oldest
\* day stored, all but today stored.
InitStores ==
    { [d \in Dates |-> EmptyMap],
      [d \in Dates |-> OnlyUSD1],
      [d \in Dates |-> IF d = 0 THEN Full1 ELSE EmptyMap],
      [d \in Dates |-> IF d = Today THEN EmptyMap ELSE Full1] }

\* ------------------------------------------------------------------ store
\* Mutant of get_rates_from_db: the query is made for today's date instead of
\* the requested one.
get_rates_from_db_Today(tbl, date, read_fail) ==
    IF read_fail THEN EmptyMap ELSE tbl[Today]

\* get_rates_from_db: the rows of one date as a dict; None (here the empty
\* mapping: callers only test its truth value) when there are no rows or when
\* the read raises.
get_rates_from_db(tbl, date, read_fail) ==
    IF read_fail THEN EmptyMap ELSE tbl[date]

\* Mutant of store_rates_in_db: INSERT OR IGNORE, an existing row is kept.
store_rates_in_db_Ignore(db, date, tasas, t, write_fail) ==
    IF DOMAIN tasas = {} THEN db
    ELSE IF write_fail THEN db
    ELSE [rates |-> [db.rates EXCEPT ![date] = @ @@ tasas],
          metadata |-> ("last_update" :> t) @@ db.metadata]

\* Mutant of store_rates_in_db: conn.commit() is missing, nothing is stored.
store_rates_in_db_NoCommit(db, date, tasas, t, write_fail) == db

\* Mutant of store_rates_in_db: a tracked currency the response omits is
\* stored with rate 0.
store_rates_in_db_FillZero(db, date, tasas, t, write_fail) ==
    IF DOMAIN tasas = {} THEN db
    ELSE IF write_fail THEN db
    ELSE [rates |-> [db.rates EXCEPT ![date] =
                        [c \in DOMAIN tasas \cup supported_currencies |->
                            IF c \in DOMAIN tasas THEN tasas[c] ELSE 0]],
          metadata |-> ("last_update" :> t) @@ db.metadata]

\* Mutant of store_rates_in_db: the rows written before the exception stay.
store_rates_in_db_KeepOnFail(db, date, tasas, t, write_fail) ==
    IF DOMAIN tasas = {} THEN db
    ELSE IF write_fail THEN [db EXCEPT !.rates[date] = tasas @@ @]
    ELSE [rates |-> [db.rates EXCEPT ![date] = tasas @@ @],
          metadata |-> ("last_update" :> t) @@ db.metadata]

\* Mutant of store_rates_in_db: the last_update row is written and committed
\* before the dict is tested for emptiness.
store_rates_in_db_TouchOnEmpty(db, date, tasas, t, write_fail) ==
    IF write_fail THEN db
    ELSE [rates |-> [db.rates EXCEPT ![date] = tasas @@ @],
          metadata |-> ("last_update" :> t) @@ db.metadata]

\* store_rates_in_db: INSERT OR REPLACE of one row per currency of the dict and
\* of the last_update row, committed together; nothing on an empty dict; a
\* raised exception is printed and the uncommitted transaction is dropped.
store_rates_in_db(db, date, tasas, t, write_fail) ==
    IF DOMAIN tasas = {} THEN db
    ELSE IF write_fail THEN db
    ELSE [rates |-> [db.rates EXCEPT ![date] = tasas @@ @],
          metadata |-> ("last_update" :> t) @@ db.metadata]

\* ------------------------------------------------------- database commands
\* A database db is the pair of its committed tables, [rates, metadata].
EmptyDb == [rates |-> [d \in Dates |-> EmptyMap], metadata |-> EmptyMap]

\* Mutant of db_clear: only the rates table is emptied.
db_clear_RatesOnly(db, fail) ==
    IF fail THEN [db |-> db, raised |-> "Database Error"]
    ELSE [db |-> [EmptyDb EXCEPT !.metadata = db.metadata], raised |-> "none"]

\* "db clear": DELETE FROM rates, DELETE FROM metadata, committed together and
\* answered with "Database Cleared"; an exception is answered with "Database
\* Error" and nothing is committed.
db_clear(db, fail) ==
    IF fail THEN [db |-> db, raised |-> "Database Error"]
    ELSE [db |-> EmptyDb, raised |-> "none"]

\* "db backup": shutil.copy2(DB_PATH, backup_path), answered with "Database
\* Backup Created"; an exception is answered with "Backup Error".
db_backup(file, db, fail) ==
    IF fail THEN [file |-> file, raised |-> "Backup Error"]
    ELSE [file |-> <<db>>, raised |-> "none"]

\* Mutant of db_restore: the records of the backup are merged into the store,
\* the records the backup does not have stay.
db_restore_Merge(db, file, fail) ==
    IF file = None \/ fail THEN [db |-> db, raised |-> "Restore Error"]
    ELSE [db |-> [rates |-> [d \in Dates |-> file[1].rates[d] @@ db.rates[d]],
                  metadata |-> file[1].metadata @@ db.metadata],
          raised |-> "none"]

\* "db restore": shutil.copy2(backup_path, DB_PATH), answered with "Database
\* Restored"; "Restore Error" when the backup file does not exist or the copy
\* raises.
db_restore(db, file, fail) ==
    IF file = None \/ fail THEN [db |-> db, raised |-> "Restore Error"]
    ELSE [db |-> file[1], raised |-> "none"]

\* rebuild_database: defines the function rebuild_task and returns; no thread
\* is created and rebuild_task is never called, so nothing is fetched.
rebuild_database(db) == db

\* "db rebuild": both tables are emptied and committed, rebuild_database is
\* called and the answer is "Rebuild Initiated"; an exception is answered with
\* "Rebuild Error" and nothing is committed.
db_rebuild(db, fail) ==
    IF fail THEN [db |-> db, raised |-> "Rebuild Error"]
    ELSE [db |-> rebuild_database(EmptyDb), raised |-> "none"]

\* --------------------------------------------------------------- resolver
\* Python truth value of cached_data: false for None and for the empty dict.
Truthy(v) == v # None /\ v[1] # EmptyJson

\* Mutant of CacheHit: the snapshot's date is not compared with the date asked
\* for.
CacheHit_AnyDate(w, t, date, force_api) ==
    /\ ~force_api
    /\ Truthy(w.cached_data)
    /\ w.last_api_call_time # None
    /\ w.last_api_call_time[1] # 0
    /\ (t - w.last_api_call_time[1]) < CACHE_DURATION

\* Mutant of CacheHit: the snapshot is used only while the store still has a
\* record for its date.
CacheHit_StoreBacked(w, t, date, force_api) ==
    /\ ~force_api
    /\ Truthy(w.cached_data)
    /\ w.last_api_call_time # None
    /\ w.last_api_call_time[1] # 0
    /\ w.cached_date = <<date>>
    /\ (t - w.last_api_call_time[1]) < CACHE_DURATION
    /\ DOMAIN w.rates[date] # {}

\* The memory-cache test of fetch_exchange_rates.
CacheHit(w, t, date, force_api) ==
    /\ ~force_api
    /\ Truthy(w.cached_data)
    /\ w.last_api_call_time # None
    /\ w.last_api_call_time[1] # 0
    /\ w.cached_date = <<date>>
    /\ (t - w.last_api_call_time[1]) < CACHE_DURATION

\* Mutant of OnRemoteError: the memory snapshot is dropped when the call fails.
OnRemoteError_DropSnapshot(w, date, io) ==
    [w |-> [w EXCEPT !.cached_data = None, !.cached_date = None,
                     !.last_api_call_time = None],
     ret |-> BadJson, raised |-> io.status, api_calls |-> <<date>>]

\* Mutant of OnRemoteError: a failed call is made a second time before the
\* exception is let through.
OnRemoteError_Retry(w, date, io) ==
    [w |-> w, ret |-> BadJson, raised |-> io.status, api_calls |-> <<date, date>>]

\* requests.get, raise_for_status or response.json() raises: the exception
\* leaves fetch_exchange_rates before any global is assigned.
OnRemoteError(w, date, io) ==
    [w |-> w, ret |-> BadJson, raised |-> io.status, api_calls |-> <<date>>]

\* Mutant of StoreHit: the memory snapshot is left as it was.
StoreHit_KeepSnapshot(w, t, date, db_data) ==
    [w |-> w, ret |-> Dict(db_data), raised |-> "none", api_calls |-> <<>>]

\* The store has rows for the date: they become the memory snapshot, wrapped
\* as {"tasas": db_data}, and are returned.
StoreHit(w, t, date, db_data) ==
    [w |-> [w EXCEPT !.cached_data = <<Dict(db_data)>>,
                     !.cached_date = <<date>>,
                     !.last_api_call_time = <<t>>],
     ret |-> Dict(db_data), raised |-> "none", api_calls |-> <<>>]

\* fetch_exchange_rates on the world w (memory snapshot and store) at time t.
\* Gives the new world, the returned value, the exception raised ("none" when
\* it returns) and the dates of the remote calls made.
fetch_exchange_rates(w, t, date, force_api, io) ==
    LET db_data == get_rates_from_db(w.rates, date, io.read_fail) IN
    IF CacheHit(w, t, date, force_api)
    THEN [w |-> w, ret |-> w.cached_data[1], raised |-> "none", api_calls |-> <<>>]
    ELSE IF ~force_api /\ DOMAIN db_data # {}
    THEN StoreHit(w, t, date, db_data)
    ELSE IF io.status # "ok"
    THEN OnRemoteError(w, date, io)
    ELSE LET cached == [w EXCEPT !.cached_data = <<io.data>>,
                                 !.cached_date = <<date>>,
                                 !.last_api_call_time = <<t>>]
         IN IF io.data.type = "list"
            THEN [w |-> cached, ret |-> BadJson, raised |-> "AttributeError",
                  api_calls |-> <<date>>]
            ELSE LET db == store_rates_in_db([rates |-> w.rates, metadata |-> w.metadata],
                                             date, io.data.tasas, t, io.write_fail)
                 IN [w |-> [cached EXCEPT !.rates = db.rates, !.metadata = db.metadata],
                     ret |-> io.data, raised |-> "none", api_calls |-> <<date>>]

\* ------------------------------------------------------------ trend backfill
\* all_dates: every day from today - period_days to today, ascending.
all_dates(period_days) == [i \in 1..(period_days + 1) |-> Today - period_days + i - 1]

\* list.index
IndexOf(seq, x) == CHOOSE i \in 1..Len(seq) : seq[i] = x

\* db_data of get_trend_data: {date: {currency: rate}} built from the rows of
\* SELECT ... WHERE date >= start AND date <= end; a date without rows is no key.
QueryRange(tbl, start, end) ==
    [d \in {x \in DOMAIN tbl : x >= start /\ x <= end /\ DOMAIN tbl[x] # {}} |-> tbl[d]]

HasRate(db_data, date, curr) == date \in DOMAIN db_data /\ curr \in DOMAIN db_data[date]

\* all_rates after the store phase: per tracked currency one entry per date of
\* all_dates, None where the store has no row (everywhere when the read raised).
StoreRates(tbl, dates, read_fail) ==
    LET db_data == QueryRange(tbl, dates[1], dates[Len(dates)]) IN
    [curr \in supported_currencies |->
        [i \in 1..Len(dates) |->
            IF ~read_fail /\ HasRate(db_data, dates[i], curr)
            THEN <<db_data[dates[i]][curr]>> ELSE None]]

\* Mutant of MissingDates: a date counts as missing only when it has no row at
\* all.
MissingDates_NoRowAtAll(tbl, dates, read_fail) ==
    IF read_fail THEN dates ELSE SelectSeq(dates, LAMBDA d : DOMAIN tbl[d] = {})

\* Mutant of MissingDates: when the read raised, no date counts as missing.
MissingDates_NoneOnFail(tbl, dates, read_fail) ==
    LET db_data == QueryRange(tbl, dates[1], dates[Len(dates)])
        lacks(d) == \E curr \in supported_currencies : ~HasRate(db_data, d, curr)
    IN IF read_fail THEN <<>> ELSE SelectSeq(dates, lacks)

\* missing_dates: the dates lacking a row of any tracked currency, in the order
\* of all_dates; all of them when the read raised.
MissingDates(tbl, dates, read_fail) ==
    LET db_data == QueryRange(tbl, dates[1], dates[Len(dates)])
        lacks(d) == \E curr \in supported_currencies : ~HasRate(db_data, d, curr)
    IN IF read_fail THEN dates ELSE SelectSeq(dates, lacks)

\* Mutant of Backfill: the first exception of a forced fetch ends the loop.
RECURSIVE Backfill_AbortOnFail(_, _, _, _, _, _, _)
Backfill_AbortOnFail(w, all_rates, dates, missing, ios, t, calls) ==
    IF missing = <<>>
    THEN [w |-> w, all_rates |-> all_rates, api_calls |-> calls]
    ELSE LET date_str == Head(missing)
             r == fetch_exchange_rates(w, t, date_str, TRUE, ios[date_str])
             idx == IndexOf(dates, date_str)
             filled ==
                 IF r.raised = "none" /\ DOMAIN r.ret.tasas # {}
                 THEN [curr \in DOMAIN all_rates |->
                          IF curr \in DOMAIN r.ret.tasas
                          THEN [all_rates[curr] EXCEPT ![idx] = <<r.ret.tasas[curr]>>]
                          ELSE all_rates[curr]]
                 ELSE all_rates
         IN IF r.raised # "none"
            THEN [w |-> r.w, all_rates |-> all_rates, api_calls |-> calls \o r.api_calls]
            ELSE Backfill_AbortOnFail(r.w, filled, dates, Tail(missing), ios, t,
                                      calls \o r.api_calls)

\* The loop over missing_dates: one forced fetch per date; an exception leaves
\* the date's entries as they are.
RECURSIVE Backfill(_, _, _, _, _, _, _)
Backfill(w, all_rates, dates, missing, ios, t, calls) ==
    IF missing = <<>>
    THEN [w |-> w, all_rates |-> all_rates, api_calls |-> calls]
    ELSE LET date_str == Head(missing)
             r == fetch_exchange_rates(w, t, date_str, TRUE, ios[date_str])
             idx == IndexOf(dates, date_str)
             filled ==
                 IF r.raised = "none" /\ DOMAIN r.ret.tasas # {}
                 THEN [curr \in DOMAIN all_rates |->
                          IF curr \in DOMAIN r.ret.tasas
                          THEN [all_rates[curr] EXCEPT ![idx] = <<r.ret.tasas[curr]>>]
                          ELSE all_rates[curr]]
                 ELSE all_rates
         IN Backfill(r.w, filled, dates, Tail(missing), ios, t, calls \o r.api_calls)

\* Mutant of TrendEntry: the dates are returned unfiltered.
TrendEntry_AllDates(dates, rs, t) ==
    LET idxs == SelectSeq([i \in 1..Len(rs) |-> i], LAMBDA i : rs[i] # None) IN
    [dates |-> dates,
     rates |-> [k \in 1..Len(idxs) |-> rs[idxs[k]][1]],
     timestamp |-> t]

\* Mutant of TrendEntry: the rates that are not None are paired with the first
\* dates of all_dates instead of their own.
TrendEntry_FirstDates(dates, rs, t) ==
    LET idxs == SelectSeq([i \in 1..Len(rs) |-> i], LAMBDA i : rs[i] # None) IN
    [dates |-> [k \in 1..Len(idxs) |-> dates[k]],
     rates |-> [k \in 1..Len(idxs) |-> rs[idxs[k]][1]],
     timestamp |-> t]

\* valid_data unzipped: the dates whose entry is not None, with their rates.
ValidIdx(rs) == SelectSeq([i \in 1..Len(rs) |-> i], LAMBDA i : rs[i] # None)
TrendEntry(dates, rs, t) ==
    LET idxs == ValidIdx(rs) IN
    [dates |-> [k \in 1..Len(idxs) |-> dates[idxs[k]]],
     rates |-> [k \in 1..Len(idxs) |-> rs[idxs[k]][1]],
     timestamp |-> t]

\* Mutant of TrendCacheHit: the age is that of the newest entry of the cache.
TrendCacheHit_NewestEntry(tc, t, currency, period_days) ==
    /\ <<currency, period_days>> \in DOMAIN tc
    /\ \E k \in DOMAIN tc : (t - tc[k].timestamp) < CACHE_DURATION

\* The trend-cache test of get_trend_data.
TrendCacheHit(tc, t, currency, period_days) ==
    /\ <<currency, period_days>> \in DOMAIN tc
    /\ (t - tc[<<currency, period_days>>].timestamp) < CACHE_DURATION

\* The dates this call fetches (none when the trend cache answers).
TrendMissing(tc, tbl, t, currency, period_days, read_fail) ==
    IF TrendCacheHit(tc, t, currency, period_days) THEN <<>>
    ELSE MissingDates(tbl, all_dates(period_days), read_fail)

\* Mutant of get_trend_data: only the requested currency's series is cached.
get_trend_data_OnlyRequested(tc, w, t, currency, period_days, read_fail, ios) ==
    LET dates == all_dates(period_days)
        b == Backfill(w, StoreRates(w.rates, dates, read_fail), dates,
                      MissingDates(w.rates, dates, read_fail), ios, t, <<>>)
        result == TrendEntry(dates, b.all_rates[currency], t)
    IN IF TrendCacheHit(tc, t, currency, period_days)
       THEN [tc |-> tc, w |-> w, ret |-> tc[<<currency, period_days>>],
             raised |-> "none", api_calls |-> <<>>]
       ELSE IF currency \notin DOMAIN b.all_rates
       THEN [tc |-> tc, w |-> b.w, ret |-> TrendEntry(<<>>, <<>>, t),
             raised |-> "KeyError", api_calls |-> b.api_calls]
       ELSE IF result.dates = <<>>
       THEN [tc |-> tc, w |-> b.w, ret |-> result, raised |-> "none",
             api_calls |-> b.api_calls]
       ELSE [tc |-> [k \in DOMAIN tc \cup {<<currency, period_days>>} |->
                        IF k = <<currency, period_days>> THEN result ELSE tc[k]],
             w |-> b.w, ret |-> result, raised |-> "none", api_calls |-> b.api_calls]

\* get_trend_data on trend cache tc and world w at time t.  ios gives the
\* outcome of the forced fetch of each missing date.
get_trend_data(tc, w, t, currency, period_days, read_fail, ios) ==
    LET dates == all_dates(period_days)
        b == Backfill(w, StoreRates(w.rates, dates, read_fail), dates,
                      MissingDates(w.rates, dates, read_fail), ios, t, <<>>)
        result == TrendEntry(dates, b.all_rates[currency], t)
        others == {curr \in supported_currencies :
                      curr # currency /\ ValidIdx(b.all_rates[curr]) # <<>>}
    IN IF TrendCacheHit(tc, t, currency, period_days)
       THEN [tc |-> tc, w |-> w, ret |-> tc[<<currency, period_days>>],
             raised |-> "none", api_calls |-> <<>>]
       ELSE IF currency \notin DOMAIN b.all_rates
       THEN [tc |-> tc, w |-> b.w, ret |-> TrendEntry(<<>>, <<>>, t),
             raised |-> "KeyError", api_calls |-> b.api_calls]
       ELSE IF result.dates = <<>>
       THEN [tc |-> tc, w |-> b.w, ret |-> result, raised |-> "none",
             api_calls |-> b.api_calls]
       ELSE [tc |-> [k \in DOMAIN tc \cup {<<c, period_days>> : c \in others \cup {currency}} |->
                        IF k[2] = period_days /\ k[1] \in others \cup {currency}
                        THEN TrendEntry(dates, b.all_rates[k[1]], t)
                        ELSE tc[k]],
             w |-> b.w, ret |-> result, raised |-> "none", api_calls |-> b.api_calls]

World ==
    [cached_data |-> cached_data, cached_date |-> cached_date,
     last_api_call_time |-> last_api_call_time, rates |-> rates, metadata |-> metadata]

SetWorld(w) ==
    /\ cached_data' = w.cached_data
    /\ cached_date' = w.cached_date
    /\ last_api_call_time' = w.last_api_call_time
    /\ rates' = w.rates
    /\ metadata' = w.metadata

\* ----------------------------------------------------------------- actions
Init ==
    /\ rates \in InitStores
    /\ metadata = IF \A d \in Dates : rates[d] = EmptyMap
                  THEN EmptyMap ELSE ("last_update" :> 0)
    /\ cached_data = None
    /\ cached_date = None
    /\ last_api_call_time = None
    /\ trend_cache = EmptyMap
    /\ now = StartTime
    /\ ops = 0
    /\ last = [op |-> "init"]
    /\ prev = [op |-> "init"]
    /\ up = [pc |-> "off"]
    /\ backup = None
    /\ other = None

\* What `last` keeps of a request: its arguments, the environment's outcomes,
\* the state it started from and what it gave.
Served(op, args, io, r) ==
    [op |-> op, args |-> args, io |-> io, t |-> now,
     pre |-> [w |-> World, tc |-> trend_cache],
     ret |-> r.ret, raised |-> r.raised, api_calls |-> r.api_calls]

\* A single-date request: fetch_exchange_rates(extension, date, force_api).
DoResolve(date, force_api, io, r) ==
    /\ SetWorld(r.w)
    /\ last' = Served("resolve", [date |-> date, force_api |-> force_api], io, r)
    /\ prev' = last
    /\ ops' = ops + 1
    /\ UNCHANGED <<trend_cache, now, up, backup, other>>

Resolve ==
    /\ ops < MaxOps
    /\ \E date \in Dates, force_api \in BOOLEAN, io \in IOs :
         DoResolve(date, force_api, io, fetch_exchange_rates(World, now, date, force_api, io))

\* A trend request: get_trend_data(extension, currency, period_days).
DoTrend(currency, period_days, io, r) ==
    /\ SetWorld(r.w)
    /\ trend_cache' = r.tc
    /\ last' = Served("trend", [currency |-> currency, period_days |-> period_days], io, r)
    /\ prev' = last
    /\ ops' = ops + 1
    /\ UNCHANGED <<now, up, backup, other>>

\* requests.get raises: the network is down.
NetworkDownIO == IO(FALSE, "network", BadJson, FALSE)

\* The outcomes of the forced fetches of the dates in S: at most MaxFaults of
\* them give something other than the full snapshot, or the network is down
\* for the whole request.
BackfillOutcomes(S) ==
    {ios \in [S -> BackfillIOs] : Cardinality({d \in S : ios[d] # FullIO}) <= MaxFaults}
        \cup {[d \in S |-> NetworkDownIO]}

Trend ==
    /\ ops < MaxOps
    /\ \E currency \in RequestCurrencies, period_days \in Periods, read_fail \in BOOLEAN :
         LET missing == TrendMissing(trend_cache, rates, now, currency, period_days, read_fail) IN
         \E ios \in BackfillOutcomes({missing[i] : i \in 1..Len(missing)}) :
            DoTrend(currency, period_days, [read_fail |-> read_fail, ios |-> ios],
                    get_trend_data(trend_cache, World, now, currency, period_days,
                                   read_fail, ios))

\* "db clear": DELETE FROM rates, DELETE FROM metadata, committed together; an
\* exception is reported and nothing is committed.
DbClear ==
    /\ ops < MaxOps
    /\ \E fail \in BOOLEAN :
         LET r == db_clear([rates |-> rates, metadata |-> metadata], fail) IN
         /\ rates' = r.db.rates
         /\ metadata' = r.db.metadata
         /\ last' = [op |-> "clear", raised |-> r.raised]
    /\ prev' = last
    /\ ops' = ops + 1
    /\ UNCHANGED <<cached_data, cached_date, last_api_call_time, trend_cache, now, up,
                   backup, other>>

\* The clock advances between requests.
Tick ==
    /\ 0 < ops /\ ops < MaxOps
    /\ now + TickLen <= StartTime + MaxTicks * TickLen
    /\ now' = now + TickLen
    /\ UNCHANGED <<rates, metadata, cached_data, cached_date, last_api_call_time,
                   trend_cache, ops, last, prev, up, backup, other>>

Next == Resolve \/ Trend \/ DbClear \/ Tick

Spec == Init /\ [][Next]_vars

\* ------------------------------------- store_rates_in_db, statement by statement
\* One call store_rates_in_db(up.date, up.tasas), made twice in a row with the
\* same arguments.  The connection's uncommitted writes are up.txn; every other
\* connection (any reader) sees the committed tables rates and metadata.
Store == [rates |-> rates, metadata |-> metadata]

UpArgs == {Full1, OnlyUSD2, EmptyMap}

InitUpsert ==
    /\ rates \in InitStores
    /\ metadata = IF \A d \in Dates : rates[d] = EmptyMap
                  THEN EmptyMap ELSE ("last_update" :> 0)
    /\ cached_data = None
    /\ cached_date = None
    /\ last_api_call_time = None
    /\ trend_cache = EmptyMap
    /\ now = StartTime
    /\ ops = 0
    /\ last = [op |-> "init"]
    /\ prev = [op |-> "init"]
    /\ \E date \in Dates, tasas \in UpArgs :
         up = [pc |-> "idle", call |-> 1, date |-> date, tasas |-> tasas,
               todo |-> {}, txn |-> Store, base |-> Store, failed |-> FALSE,
               first |-> [before |-> Store, after |-> Store, failed |-> FALSE]]
    /\ backup = None
    /\ other = None

UpFrame == UNCHANGED <<cached_data, cached_date, last_api_call_time, trend_cache,
                       now, ops, last, prev, backup, other>>

\* "if not rates: return", else connect and open a cursor.
UpEnter ==
    /\ up.pc = "idle"
    /\ up' = IF DOMAIN up.tasas = {}
             THEN [up EXCEPT !.pc = "returned", !.base = Store, !.txn = Store,
                             !.failed = FALSE]
             ELSE [up EXCEPT !.pc = "insert", !.base = Store, !.txn = Store,
                             !.todo = DOMAIN up.tasas, !.failed = FALSE]
    /\ UNCHANGED <<rates, metadata>>
    /\ UpFrame

\* Mutant of UpInsert: the connection is in autocommit mode, each row is
\* visible as soon as it is written.
UpInsert_Autocommit ==
    /\ up.pc = "insert"
    /\ \E c \in up.todo :
         /\ up' = [up EXCEPT !.todo = @ \ {c},
                             !.txn.rates[up.date] = (c :> up.tasas[c]) @@ @]
         /\ rates' = [rates EXCEPT ![up.date] = (c :> up.tasas[c]) @@ @]
    /\ UNCHANGED metadata
    /\ UpFrame

\* Mutant of UpInsert: the rate is added to the stored rate instead of
\* replacing it.
UpInsert_Accumulate ==
    /\ up.pc = "insert"
    /\ \E c \in up.todo :
         up' = [up EXCEPT !.todo = @ \ {c},
                          !.txn.rates[up.date] =
                             (c :> IF c \in DOMAIN @ THEN @[c] + up.tasas[c]
                                   ELSE up.tasas[c]) @@ @]
    /\ UNCHANGED <<rates, metadata>>
    /\ UpFrame

\* One iteration of the loop: INSERT OR REPLACE of one currency's row, inside
\* the connection's open transaction.
UpInsert ==
    /\ up.pc = "insert"
    /\ \E c \in up.todo :
         up' = [up EXCEPT !.todo = @ \ {c},
                          !.txn.rates[up.date] = (c :> up.tasas[c]) @@ @]
    /\ UNCHANGED <<rates, metadata>>
    /\ UpFrame

\* INSERT OR REPLACE of the last_update row, in the same transaction.
UpMeta ==
    /\ up.pc = "insert" /\ up.todo = {}
    /\ up' = [up EXCEPT !.pc = "commit",
                        !.txn.metadata = ("last_update" :> now) @@ @]
    /\ UNCHANGED <<rates, metadata>>
    /\ UpFrame

\* conn.commit(): the transaction's writes become visible together.
UpCommit ==
    /\ up.pc = "commit"
    /\ rates' = up.txn.rates
    /\ metadata' = up.txn.metadata
    /\ up' = [up EXCEPT !.pc = "returned"]
    /\ UpFrame

\* connect, execute or commit raises: the exception is printed, the function
\* returns and the connection goes away with its uncommitted writes.
UpRaise ==
    /\ up.pc \in {"insert", "commit"} \/ (up.pc = "idle" /\ DOMAIN up.tasas # {})
    /\ up' = IF up.pc = "idle"
             THEN [up EXCEPT !.pc = "returned", !.failed = TRUE, !.base = Store,
                             !.txn = Store, !.todo = DOMAIN up.tasas]
             ELSE [up EXCEPT !.pc = "returned", !.failed = TRUE]
    /\ UNCHANGED <<rates, metadata>>
    /\ UpFrame

\* The caller calls store_rates_in_db again with the same date and dict.
UpCallAgain ==
    /\ up.pc = "returned" /\ up.call = 1
    /\ up' = [up EXCEPT !.pc = "idle", !.call = 2,
                        !.first = [before |-> up.base, after |-> Store, failed |-> up.failed]]
    /\ UNCHANGED <<rates, metadata>>
    /\ UpFrame

\* The clock advances while the calls run.
UpTick ==
    /\ up.pc # "returned" \/ up.call = 1
    /\ now + TickLen <= StartTime + MaxTicks * TickLen
    /\ now' = now + TickLen
    /\ UNCHANGED <<rates, metadata, cached_data, cached_date, last_api_call_time,
                   trend_cache, ops, last, prev, up, backup, other>>

NextUpsert == UpEnter \/ UpInsert \/ UpMeta \/ UpCommit \/ UpRaise \/ UpCallAgain \/ UpTick

SpecUpsert == InitUpsert /\ [][NextUpsert]_vars

\* The statement-by-statement call ends in the store the one-step
\* store_rates_in_db of the requests gives.
UpsertAgreesWithOneStep ==
    up.pc = "returned" =>
        \E t \in {up.txn.metadata[k] : k \in DOMAIN up.txn.metadata} \cup {now} :
           Store = store_rates_in_db(up.base, up.date, up.tasas, t, up.failed)

\* ------------------------------------- database commands between store writes
\* Requests that touch the store and the backup file only: the "db" commands
\* and store_rates_in_db (the write a successful remote call ends with).
\* MaxDbOps requests are served; `last` keeps the command, what the environment
\* did to it, the store it found and its answer.
Command(op, fail, db, file, raised) ==
    /\ ops' = ops + 1
    /\ rates' = db.rates
    /\ metadata' = db.metadata
    /\ backup' = file
    /\ last' = [op |-> op, io |-> [fail |-> fail], pre |-> Store, raised |-> raised]
    /\ prev' = last
    /\ UNCHANGED <<cached_data, cached_date, last_api_call_time, trend_cache, now, up,
                   other>>

CmdUpsert ==
    /\ ops < MaxDbOps
    /\ \E date \in Dates, tasas \in UpArgs, write_fail \in BOOLEAN :
           Command("upsert", write_fail,
                   store_rates_in_db(Store, date, tasas, now, write_fail), backup, "none")

CmdClear ==
    /\ ops < MaxDbOps
    /\ \E fail \in BOOLEAN :
           LET r == db_clear(Store, fail) IN Command("clear", fail, r.db, backup, r.raised)

CmdBackup ==
    /\ ops < MaxDbOps
    /\ \E fail \in BOOLEAN :
           LET r == db_backup(backup, Store, fail) IN Command("backup", fail, Store, r.file, r.raised)

CmdRestore ==
    /\ ops < MaxDbOps
    /\ \E fail \in BOOLEAN :
           LET r == db_restore(Store, backup, fail) IN Command("restore", fail, r.db, backup, r.raised)

CmdRebuild ==
    /\ ops < MaxDbOps
    /\ \E fail \in BOOLEAN :
           LET r == db_rebuild(Store, fail) IN Command("rebuild", fail, r.db, backup, r.raised)

\* The clock advances.
CmdTick ==
    /\ now + TickLen <= StartTime + MaxTicks * TickLen
    /\ now' = now + TickLen
    /\ UNCHANGED <<rates, metadata, cached_data, cached_date, last_api_call_time,
                   trend_cache, ops, last, prev, up, backup, other>>

NextDb == CmdUpsert \/ CmdClear \/ CmdBackup \/ CmdRestore \/ CmdRebuild \/ CmdTick

\* Time passes whatever the user does; no request is ever bound to come.
SpecDb == Init /\ [][NextDb]_vars /\ WF_vars(CmdTick)

\* ------------------------------------------------ a longer run of trend requests
\* MaxTrendOps trend requests for tracked currencies, the range query never
\* failing and each forced fetch either giving the full snapshot or failing in
\* the network: long enough for trend cache entries of different ages.
LongTrend ==
    /\ ops < MaxTrendOps
    /\ \E currency \in supported_currencies, period_days \in Periods :
         LET missing == TrendMissing(trend_cache, rates, now, currency, period_days, FALSE) IN
         \E ios \in {f \in BackfillOutcomes({missing[i] : i \in 1..Len(missing)}) :
                        \A d \in DOMAIN f : f[d] \in {FullIO, NetworkDownIO}} :
            DoTrend(currency, period_days, [read_fail |-> FALSE, ios |-> ios],
                    get_trend_data(trend_cache, World, now, currency, period_days,
                                   FALSE, ios))

LongTick ==
    /\ ops < MaxTrendOps
    /\ now + TickLen <= StartTime + MaxTicks * TickLen
    /\ now' = now + TickLen
    /\ UNCHANGED <<rates, metadata, cached_data, cached_date, last_api_call_time,
                   trend_cache, ops, last, prev, up, backup, other>>

NextTrend == LongTrend \/ LongTick

SpecTrend == Init /\ [][NextTrend]_vars

\* ------------------------------------------------------ store-path change
\* Mutant of migrate_database: where a key exists in both stores the new
\* store's row is kept (INSERT OR IGNORE).
migrate_database_NewWins(old, new, fail) ==
    LET target == IF new = None THEN EmptyDb ELSE new[1] IN
    IF fail THEN target
    ELSE [rates |-> [d \in Dates |-> target.rates[d] @@ old.rates[d]],
          metadata |-> target.metadata @@ old.metadata]

\* Mutant of migrate_database: the tables are created and nothing is copied.
migrate_database_NoCopy(old, new, fail) ==
    IF new = None THEN EmptyDb ELSE new[1]

\* migrate_database(old_path, new_path): init_database() creates the tables of
\* the new file where they do not exist, every row of the old rates and
\* metadata tables is written to the new file with INSERT OR REPLACE and the
\* writes are committed together; the old file is only read.  An exception is
\* printed and nothing is committed.  Gives the new file's database.
migrate_database(old, new, fail) ==
    LET target == IF new = None THEN EmptyDb ELSE new[1] IN
    IF fail THEN target
    ELSE [rates |-> [d \in Dates |-> old.rates[d] @@ target.rates[d]],
          metadata |-> old.metadata @@ target.metadata]

\* PreferencesUpdateEventListener.on_event for the preference db_path: DB_PATH
\* becomes the new path; when it differs from the old one (whose file exists:
\* the store was initialised at start) the old store is migrated, else
\* init_database() finds the tables in place.  db is the store at the old
\* path, file the file at the other path; gives the active store and the file
\* at the path that is not active afterwards.
set_db_path(db, file, same, fail) ==
    IF same THEN [db |-> db, file |-> file]
    ELSE [db |-> migrate_database(db, file, fail), file |-> <<db>>]

\* ------------------------------------------------- the show-all-rates query
\* The default branch of handle_eltoque_rates: a non-forced
\* fetch_exchange_rates, and what the result list is headed with.  HTTPError
\* has its own handler ("Rate Limit Exceeded", "Invalid API Key" or "API
\* Error", here "API Error"); any other RequestException is answered from the
\* store ("Offline Mode") when get_rates_from_db gives rows and with "Network
\* Error" otherwise.  The exception of response.json() is a RequestException
\* in requests from 2.27 on and a plain json.JSONDecodeError before
\* (env.json_is_request_error); env.read_fail is whether the offline read
\* raises.  data.get raises AttributeError on a JSON array, also on one that
\* the memory snapshot returns, and "Error" is shown.
show_all_rates(w, t, date, io, env) ==
    LET r == fetch_exchange_rates(w, t, date, FALSE, io)
        offline_data == get_rates_from_db(r.w.rates, date, env.read_fail)
        name ==
            IF r.raised = "none" /\ r.ret.type = "list"
            THEN "Error"
            ELSE IF r.raised = "none"
            THEN IF DOMAIN r.ret.tasas = {} THEN "No data available" ELSE "Rates"
            ELSE IF r.raised = "http" THEN "API Error"
            ELSE IF r.raised = "network" \/ (r.raised = "json" /\ env.json_is_request_error)
            THEN IF DOMAIN offline_data # {} THEN "Offline Mode" ELSE "Network Error"
            ELSE IF r.raised = "json" THEN "JSON Error"
            ELSE "Error"
    IN [w |-> r.w, ret |-> r.ret, raised |-> r.raised, api_calls |-> r.api_calls,
        name |-> name,
        shown |-> IF name = "Offline Mode" THEN offline_data
                  ELSE IF name = "Rates" THEN r.ret.tasas ELSE EmptyMap]

\* --------------------------------------------------------- a user's session
\* MaxSessOps requests of every kind in a row: show-all-rates queries, trend
\* requests, the database commands and changes of the db_path preference.
\* The file at the other path may exist when the session starts.  The
\* commands do not fail here (their failures are in SpecDb); the migration of
\* a path change may.
SessIOs ==
    { FullIO, NetworkDownIO,
      IO(TRUE, "ok", Dict(Full1), FALSE),
      IO(TRUE, "network", BadJson, FALSE),
      IO(FALSE, "http", BadJson, FALSE),
      IO(FALSE, "json", BadJson, FALSE),
      IO(FALSE, "ok", BadJson, FALSE) }

Env(read_fail, json_is_request_error) ==
    [read_fail |-> read_fail, json_is_request_error |-> json_is_request_error]

\* The dates the queries of a session ask for, the stores it starts with and
\* the outcomes of a whole backfill: every fetch gives the full snapshot, or
\* the network is down.
SessDates == {0, Today}
SessStores == {db \in InitStores : db[0] # EmptyMap /\ db[Today] # Full1}
SessOutcomes(S) == {[d \in S |-> FullIO], [d \in S |-> NetworkDownIO]}

OtherStores ==
    { None,
      <<[rates |-> [d \in Dates |-> IF d = 0 THEN OnlyUSD2 ELSE EmptyMap],
         metadata |-> ("last_update" :> 0)]>> }

InitSession ==
    /\ rates \in SessStores
    /\ metadata = ("last_update" :> 0)
    /\ cached_data = None
    /\ cached_date = None
    /\ last_api_call_time = None
    /\ trend_cache = EmptyMap
    /\ now = StartTime
    /\ ops = 0
    /\ last = [op |-> "init"]
    /\ prev = [op |-> "init"]
    /\ up = [pc |-> "off"]
    /\ backup = None
    /\ other \in OtherStores

\* The files beside the active store when a request begins.
Files == [backup |-> backup, other |-> other]

SessShow ==
    /\ ops < MaxSessOps
    /\ \E date \in SessDates, io \in SessIOs, env \in {Env(a, b) : a, b \in BOOLEAN} :
         LET r == show_all_rates(World, now, date, io, env) IN
         \* the environment's choices that are not consulted are left at FALSE
         /\ env.read_fail => r.name \in {"Offline Mode", "Network Error"}
         /\ env.json_is_request_error => r.raised = "json"
         /\ SetWorld(r.w)
         /\ last' = [op |-> "show", args |-> [date |-> date, force_api |-> FALSE],
                     io |-> io, env |-> env, t |-> now,
                     pre |-> [w |-> World, tc |-> trend_cache, files |-> Files],
                     ret |-> r.ret, raised |-> r.raised, api_calls |-> r.api_calls,
                     name |-> r.name, shown |-> r.shown]
    /\ prev' = last
    /\ ops' = ops + 1
    /\ UNCHANGED <<trend_cache, now, up, backup, other>>

SessTrend ==
    /\ ops < MaxSessOps
    /\ \E currency \in supported_currencies, period_days \in Periods :
         LET missing == TrendMissing(trend_cache, rates, now, currency, period_days, FALSE) IN
         \E ios \in SessOutcomes({missing[i] : i \in 1..Len(missing)}) :
            DoTrend(currency, period_days, [read_fail |-> FALSE, ios |-> ios],
                    get_trend_data(trend_cache, World, now, currency, period_days,
                                   FALSE, ios))

\* A database command or a change of db_path: the store and the files become
\* db, file and oth; the globals of the process are not assigned.
SessCommand(op, io, db, file, oth, raised) ==
    /\ ops' = ops + 1
    /\ rates' = db.rates /\ metadata' = db.metadata
    /\ backup' = file /\ other' = oth
    /\ last' = [op |-> op, io |-> io, t |-> now,
                pre |-> [w |-> World, tc |-> trend_cache, files |-> Files],
                raised |-> raised]
    /\ prev' = last
    /\ UNCHANGED <<cached_data, cached_date, last_api_call_time, trend_cache, now, up>>

SessClear ==
    /\ ops < MaxSessOps
    /\ \E fail \in {FALSE} :
           LET r == db_clear(Store, fail)
           IN SessCommand("clear", [fail |-> fail], r.db, backup, other, r.raised)

SessBackup ==
    /\ ops < MaxSessOps
    /\ \E fail \in {FALSE} :
           LET r == db_backup(backup, Store, fail)
           IN SessCommand("backup", [fail |-> fail], Store, r.file, other, r.raised)

SessRestore ==
    /\ ops < MaxSessOps
    /\ \E fail \in {FALSE} :
           LET r == db_restore(Store, backup, fail)
           IN SessCommand("restore", [fail |-> fail], r.db, backup, other, r.raised)

SessRebuild ==
    /\ ops < MaxSessOps
    /\ \E fail \in {FALSE} :
           LET r == db_rebuild(Store, fail)
           IN SessCommand("rebuild", [fail |-> fail], r.db, backup, other, r.raised)

SessSetPath ==
    /\ ops < MaxSessOps
    /\ \E same, fail \in BOOLEAN :
           /\ same => ~fail
           /\ LET r == set_db_path(Store, other, same, fail)
              IN SessCommand("set_db_path", [same |-> same, fail |-> fail],
                             r.db, backup, r.file, "none")

SessTick ==
    /\ 0 < ops /\ ops < MaxSessOps
    /\ now + TickLen <= StartTime + MaxTicks * TickLen
    /\ now' = now + TickLen
    /\ UNCHANGED <<rates, metadata, cached_data, cached_date, last_api_call_time,
                   trend_cache, ops, last, prev, up, backup, other>>

NextSession ==
    \/ SessShow \/ SessTrend \/ SessClear \/ SessBackup \/ SessRestore
    \/ SessRebuild \/ SessSetPath \/ SessTick

SpecSession == InitSession /\ [][NextSession]_vars

\* ------------------------------------------------- vocabulary of the claims
IsResolve == last.op = "resolve"
IsTrend == last.op = "trend"
Forced == IsResolve /\ last.args.force_api
NonForced == IsResolve /\ ~last.args.force_api

\* The store held at least one record for date d when the last request began.
HadRecord(d) == DOMAIN last.pre.w.rates[d] # {}

\* The memory snapshot of world w holds data (it is not the empty object), is
\* for date d and is younger than the TTL at t.
SnapshotLive(w, t, d) ==
    /\ w.cached_data # None
    /\ w.cached_data # <<EmptyJson>>
    /\ w.cached_date = <<d>>
    /\ w.last_api_call_time # None
    /\ t - w.last_api_call_time[1] < CACHE_DURATION

\* The last request returned (raised nothing) after a remote call.
FetchedOk(l) == l.raised = "none" /\ l.api_calls # <<>>

\* The memory snapshot, the store and the trend cache are as the last request
\* found them.
NothingChanged == World = last.pre.w /\ trend_cache = last.pre.tc

\* The trend cache held a fresh entry for the last trend request.
TrendWasCached ==
    /\ <<last.args.currency, last.args.period_days>> \in DOMAIN last.pre.tc
    /\ last.t - last.pre.tc[<<last.args.currency, last.args.period_days>>].timestamp
          < CACHE_DURATION

InRange(d, period_days) == Today - period_days <= d /\ d <= Today

\* Date d lacked a record of some tracked currency when the last request began.
Lacked(d) == \E c \in supported_currencies : c \notin DOMAIN last.pre.w.rates[d]

Called(d) == \E i \in 1..Len(last.api_calls) : last.api_calls[i] = d

StrictlyAscending(seq) == \A i, j \in 1..Len(seq) : i < j => seq[i] < seq[j]

\* ----------------------------------------------------------------------- C1
\* C1 as stated: whenever the store holds a record for D, a non-forced
\* resolve(D) returns exactly the store's map for D and makes no remote call.
C1_StoreAnswersAlways ==
    (NonForced /\ HadRecord(last.args.date)) =>
        /\ last.raised = "none"
        /\ last.ret = Dict(last.pre.w.rates[last.args.date])
        /\ last.api_calls = <<>>

\* C1 amended: whenever the store holds a record for D, a non-forced resolve(D)
\* makes no remote call and returns the live memory snapshot for D when there
\* is one, and otherwise, provided the store read does not fail, exactly the
\* store's map for D.
C1_SnapshotThenStore ==
    (NonForced /\ HadRecord(last.args.date)) =>
        /\ SnapshotLive(last.pre.w, last.t, last.args.date) =>
              /\ last.raised = "none"
              /\ last.ret = last.pre.w.cached_data[1]
              /\ last.api_calls = <<>>
        /\ (~SnapshotLive(last.pre.w, last.t, last.args.date) /\ ~last.io.read_fail) =>
              /\ last.raised = "none"
              /\ last.ret = Dict(last.pre.w.rates[last.args.date])
              /\ last.api_calls = <<>>

\* A non-forced resolve for a stored date, made while the memory snapshot was
\* set but not live, was answered with the store's map.
C1_Witness ==
    /\ NonForced /\ HadRecord(last.args.date)
    /\ ~SnapshotLive(last.pre.w, last.t, last.args.date)
    /\ ~last.io.read_fail
    /\ last.pre.w.cached_data # None
    /\ last.ret = Dict(rates[last.args.date])

\* ----------------------------------------------------------------------- C2
\* C2 as stated: a forced resolve(D) always makes a remote call, and whenever
\* that call succeeds the store afterwards holds every fetched (D, currency)
\* record with the fetched rate.
C2_ForcedAlwaysStores ==
    Forced =>
        /\ last.api_calls = <<last.args.date>>
        /\ FetchedOk(last) =>
              \A c \in DOMAIN last.ret.tasas :
                 /\ c \in DOMAIN rates[last.args.date]
                 /\ rates[last.args.date][c] = last.ret.tasas[c]

\* C2 amended: a forced resolve(D) always makes a remote call, and whenever
\* that call succeeds and the store write does not fail, the store afterwards
\* holds every fetched (D, currency) record with the fetched rate.
C2_ForcedStoresUnlessWriteFails ==
    Forced =>
        /\ last.api_calls = <<last.args.date>>
        /\ (FetchedOk(last) /\ ~last.io.write_fail) =>
              \A c \in DOMAIN last.ret.tasas :
                 /\ c \in DOMAIN rates[last.args.date]
                 /\ rates[last.args.date][c] = last.ret.tasas[c]

\* A forced resolve of the date of a live snapshot, with a record in the store,
\* went to the remote source and overwrote the stored rate.
C2_Witness ==
    /\ Forced /\ FetchedOk(last) /\ ~last.io.write_fail
    /\ SnapshotLive(last.pre.w, last.t, last.args.date)
    /\ \E c \in DOMAIN last.ret.tasas :
          /\ c \in DOMAIN last.pre.w.rates[last.args.date]
          /\ last.pre.w.rates[last.args.date][c] # last.ret.tasas[c]
          /\ rates[last.args.date][c] = last.ret.tasas[c]

\* ----------------------------------------------------------------------- C3
\* The request before the last was a forced resolve(D) that succeeded with a
\* non-empty map, from a store without a record for D, and the last request is
\* a non-forced resolve(D).
C3_Case ==
    /\ NonForced
    /\ prev.op = "resolve" /\ prev.args.force_api
    /\ prev.args.date = last.args.date
    /\ DOMAIN prev.pre.w.rates[prev.args.date] = {}
    /\ FetchedOk(prev)
    /\ DOMAIN prev.ret.tasas # {}

C3_SameMapNoCall ==
    /\ last.raised = "none"
    /\ last.ret.type = "dict"
    /\ last.ret.tasas = prev.ret.tasas
    /\ last.api_calls = <<>>

\* C3 as stated: after a forced resolve(D) that succeeded with a non-empty map
\* M from a store without a record for D, a subsequent non-forced resolve(D)
\* returns M without a remote call.
C3_ReplayAlways == C3_Case => C3_SameMapNoCall

\* C3 amended: ... a subsequent non-forced resolve(D) returns M without a
\* remote call, provided it comes within 300 seconds of the forced one, or the
\* forced call's store write and its own store read both succeed.
C3_ReplayIfCachedOrStored ==
    (/\ C3_Case
     /\ \/ last.t - prev.t < CACHE_DURATION
        \/ ~prev.io.write_fail /\ ~last.io.read_fail)
    => C3_SameMapNoCall

\* The replay came from the store, after the snapshot had expired.
C3_Witness ==
    /\ C3_Case
    /\ last.t - prev.t >= CACHE_DURATION
    /\ ~prev.io.write_fail /\ ~last.io.read_fail
    /\ last.ret.tasas = prev.ret.tasas

\* ----------------------------------------------------------------------- C4
\* C4: when the remote call of a resolve fails (HTTP error status, network
\* failure, undecodable body) the error reaches the caller and the memory
\* snapshot, the store and the trend cache are as before the call.
C4_FailureChangesNothing ==
    (IsResolve /\ last.api_calls # <<>> /\ last.io.status \in {"http", "network", "json"}) =>
        /\ last.raised = last.io.status
        /\ NothingChanged

\* A remote failure while a snapshot and a trend cache entry existed.
C4_Witness ==
    /\ IsResolve /\ last.api_calls # <<>> /\ last.io.status = "network"
    /\ last.raised = "network"
    /\ cached_data # None
    /\ DOMAIN trend_cache # {}

\* ----------------------------------------------------------------------- C5
\* Exactly the dates of the range that satisfy want(d) were fetched, once each,
\* in ascending order.
CallsAre(want(_)) ==
    /\ \A i \in 1..Len(last.api_calls) :
          InRange(last.api_calls[i], last.args.period_days) /\ want(last.api_calls[i])
    /\ \A d \in Dates : (InRange(d, last.args.period_days) /\ want(d)) => Called(d)
    /\ StrictlyAscending(last.api_calls)

\* C5 as stated: a non-cached trend(c, n) makes exactly one remote call for
\* each date of [today-n, today] whose store records lack a tracked currency,
\* and none for any other date.
C5_OneCallPerLackingDate ==
    (IsTrend /\ ~TrendWasCached) => CallsAre(Lacked)

\* C5 amended: ... provided the range query of the store does not fail; when
\* it fails, one remote call is made for every date of the range.
C5_OneCallPerLackingDateIfRead ==
    (IsTrend /\ ~TrendWasCached) =>
        IF last.io.read_fail THEN CallsAre(LAMBDA d : TRUE) ELSE CallsAre(Lacked)

\* Two dates of a three-date range were missing and two calls were made; the
\* stored date was not fetched.
C5_Witness ==
    /\ IsTrend /\ ~TrendWasCached /\ ~last.io.read_fail
    /\ Len(last.api_calls) = 2
    /\ \E d \in Dates : InRange(d, last.args.period_days) /\ ~Lacked(d) /\ ~Called(d)

\* ----------------------------------------------------------------------- C6
WellFormedSeries(e) == Len(e.dates) = Len(e.rates) /\ StrictlyAscending(e.dates)

\* C6: every series trend returns, computed or cached, has as many dates as
\* rates, and strictly ascending dates.
C6_SeriesWellFormed ==
    (IsTrend /\ last.raised = "none") => WellFormedSeries(last.ret)

\* A series served from the trend cache that skips a date of its range.
C6_Witness ==
    /\ IsTrend /\ last.raised = "none" /\ TrendWasCached
    /\ Len(last.ret.dates) >= 2
    /\ Len(last.ret.dates) < last.args.period_days + 1

\* ----------------------------------------------------------------------- C7
\* C7: trend never throws, whatever currency it is called with.
C7_TrendNeverThrows == IsTrend => last.raised = "none"

\* ----------------------------------------------------------------------- C8
\* The last request was a resolve whose remote response for its date omitted
\* currency c.
ResolveOmitted(l, c) ==
    /\ l.op = "resolve" /\ FetchedOk(l)
    /\ c \notin DOMAIN l.ret.tasas

\* C8 as stated: if a successful remote response for D omits X, the store has
\* no (D, X) record afterwards, and a subsequent trend computation for X over
\* a range that includes D returns a series without D.
C8_OmittedNeverStored ==
    /\ \A c \in supported_currencies :
          ResolveOmitted(last, c) => c \notin DOMAIN rates[last.args.date]
    /\ \A c \in supported_currencies :
          (/\ ResolveOmitted(prev, c)
           /\ IsTrend /\ last.args.currency = c /\ last.raised = "none"
           /\ InRange(prev.args.date, last.args.period_days))
          => \A i \in 1..Len(last.ret.dates) : last.ret.dates[i] # prev.args.date

\* The forced fetch of date d in the last trend request gave no rate of c.
BackfillGaveNo(d, c) ==
    \/ last.io.ios[d].status # "ok"
    \/ last.io.ios[d].data.type # "dict"
    \/ c \notin DOMAIN last.io.ios[d].data.tasas

\* C8 amended: if a successful remote response for D omits X and the store
\* held no (D, X) record before, it holds none afterwards; and every series
\* that a non-cached trend computation for X over a range including D returns
\* is without D whenever the store held no (D, X) record when the computation
\* began and its own fetch of D failed or omitted X.
C8_OmittedStaysAbsent ==
    /\ \A c \in supported_currencies :
          (ResolveOmitted(last, c) /\ c \notin DOMAIN last.pre.w.rates[last.args.date])
          => c \notin DOMAIN rates[last.args.date]
    /\ \A c \in supported_currencies, d \in Dates :
          (/\ IsTrend /\ ~TrendWasCached /\ last.raised = "none"
           /\ last.args.currency = c
           /\ InRange(d, last.args.period_days)
           /\ c \notin DOMAIN last.pre.w.rates[d]
           /\ BackfillGaveNo(d, c))
          => /\ c \notin DOMAIN rates[d]
             /\ \A i \in 1..Len(last.ret.dates) : last.ret.dates[i] # d

\* A response for D omitted X, no (D, X) record was stored, and the trend for X
\* that followed, fetching D again without getting X, returned other dates only.
C8_Witness ==
    \E c \in supported_currencies :
       /\ ResolveOmitted(prev, c)
       /\ c \notin DOMAIN prev.pre.w.rates[prev.args.date]
       /\ IsTrend /\ ~TrendWasCached /\ last.raised = "none"
       /\ last.args.currency = c
       /\ InRange(prev.args.date, last.args.period_days)
       /\ Called(prev.args.date)
       /\ BackfillGaveNo(prev.args.date, c)
       /\ last.ret.dates # <<>>
       /\ \A i \in 1..Len(last.ret.dates) : last.ret.dates[i] # prev.args.date

\* ----------------------------------------------------------------------- C9
\* C9 as stated: after store_rates_in_db was called twice in a row with the
\* same date and dict, the store contents are what they were after the first
\* call.
C9_SecondCallChangesNothing ==
    (up.pc = "returned" /\ up.call = 2) => Store = up.first.after

\* C9 amended: after store_rates_in_db was called twice in a row with the same
\* date and dict, and the first call's write succeeded, the rates table is what
\* it was after the first call (the last_update row carries the time of the
\* later write).
C9_SecondCallKeepsRates ==
    (up.pc = "returned" /\ up.call = 2 /\ ~up.first.failed) => rates = up.first.after.rates

\* Both calls wrote, the first changed the rates table, the second only the
\* last_update row.
C9_Witness ==
    /\ up.pc = "returned" /\ up.call = 2 /\ ~up.first.failed /\ ~up.failed
    /\ up.first.before.rates # up.first.after.rates
    /\ rates = up.first.after.rates
    /\ metadata # up.first.after.metadata

\* ---------------------------------------------------------------------- C10
\* Every record of the call and the call's last_update row are visible.
UpAllVisible ==
    /\ rates = [up.base.rates EXCEPT ![up.date] = up.tasas @@ @]
    /\ metadata = up.txn.metadata
    /\ "last_update" \in DOMAIN metadata

\* C10: the visible store is, at every moment of a store_rates_in_db call,
\* either the store the call found or that store with all of the call's
\* records and its last_update row; after a failed call it is the store the
\* call found, after a successful one the store with all of the call's writes.
C10_UpsertAtomic ==
    /\ up.pc \in {"insert", "commit"} => Store = up.base
    /\ up.pc = "returned" =>
          IF up.failed \/ DOMAIN up.tasas = {} THEN Store = up.base ELSE UpAllVisible

\* A call failed after it had written some but not all of its rows: none is
\* visible.
C10_Witness ==
    /\ up.pc = "returned" /\ up.failed
    /\ up.todo # {} /\ up.todo # DOMAIN up.tasas
    /\ up.txn.rates # up.base.rates
    /\ Store = up.base

\* ---------------------------------------------------------------------- C11
IsCmd(l, op) == l.op = op
TablesEmpty == (\A d \in Dates : DOMAIN rates[d] = {}) /\ DOMAIN metadata = {}

\* C11 as stated: "db clear" leaves the rates table and the metadata table
\* empty, and applied again to the resulting store it leaves the store
\* unchanged and reports success.
C11_ClearEmptiesAlways ==
    /\ IsCmd(last, "clear") => TablesEmpty
    /\ (IsCmd(last, "clear") /\ IsCmd(prev, "clear")) =>
          Store = last.pre /\ last.raised = "none"

\* C11 amended: a "db clear" during which the store raises nothing leaves both
\* tables empty and reports success, and applied again to the resulting store
\* it leaves the store unchanged; a "db clear" during which the store raises
\* reports "Database Error" and leaves the store as it was.
C11_ClearEmptiesUnlessFails ==
    IsCmd(last, "clear") =>
        IF last.io.fail
        THEN Store = last.pre /\ last.raised = "Database Error"
        ELSE /\ TablesEmpty
             /\ last.raised = "none"
             /\ (IsCmd(prev, "clear") /\ ~prev.io.fail) => Store = last.pre

\* "db clear" emptied a store that held records and a last_update row, and a
\* second "db clear" found it empty and left it so.
C11_Witness ==
    /\ IsCmd(prev, "clear") /\ ~prev.io.fail
    /\ \E d \in Dates : DOMAIN prev.pre.rates[d] # {}
    /\ DOMAIN prev.pre.metadata # {}
    /\ IsCmd(last, "clear") /\ ~last.io.fail /\ last.raised = "none"
    /\ TablesEmpty /\ Store = last.pre

C13_RebuildEventuallyPopulates ==
    (IsCmd(last, "rebuild") /\ last.raised = "none")
        ~> (\E d \in Dates : DOMAIN rates[d] # {})

\* ---------------------------------------------------------------------- C14
\* C14: when the store write of a resolve fails, the caller gets an error
\* outcome (a StoreError).
C14_WriteFailureSurfaced ==
    (/\ IsResolve /\ last.api_calls # <<>>
     /\ last.io.status = "ok" /\ last.io.data.type = "dict"
     /\ DOMAIN last.io.data.tasas # {}
     /\ last.io.write_fail)
    => last.raised # "none"

\* ---------------------------------------------------------------------- C15
\* The request before the last was a trend computation (not answered from the
\* trend cache), and the last request is a trend for a different, tracked
\* currency over the same or a shorter window ending today.
C15_Case ==
    /\ IsTrend /\ prev.op = "trend"
    /\ prev.raised = "none"
    /\ ~(/\ <<prev.args.currency, prev.args.period_days>> \in DOMAIN prev.pre.tc
         /\ prev.t - prev.pre.tc[<<prev.args.currency, prev.args.period_days>>].timestamp
               < CACHE_DURATION)
    /\ last.args.currency \in supported_currencies
    /\ last.args.currency # prev.args.currency
    /\ last.args.period_days <= prev.args.period_days

\* C15 as stated: after a trend computation over a range, a subsequent trend
\* request for a different tracked currency over an overlapping period makes
\* no remote call.
C15_NextTrendNeverCalls ==
    C15_Case => (last.raised = "none" /\ last.api_calls = <<>>)

\* The computation before the last request fetched date d, and the fetch did
\* not both return every tracked currency and get written to the store.
PrevLeftGap(d) ==
    /\ \E i \in 1..Len(prev.api_calls) : prev.api_calls[i] = d
    /\ \/ prev.io.ios[d].status # "ok"
       \/ prev.io.ios[d].data.type # "dict"
       \/ ~(supported_currencies \subseteq DOMAIN prev.io.ios[d].data.tasas)
       \/ prev.io.ios[d].write_fail

\* C15 amended: ... makes no remote call when a fresh trend cache entry exists
\* for its own (currency, period), or when its range query of the store does
\* not fail and every forced fetch that the earlier computation made for a date
\* of its window returned all tracked currencies and was written to the store.
C15_NextTrendCallsOnlyForGaps ==
    (/\ C15_Case
     /\ \/ TrendWasCached
        \/ /\ ~last.io.read_fail
           /\ \A d \in Dates : InRange(d, last.args.period_days) => ~PrevLeftGap(d))
    => (last.raised = "none" /\ last.api_calls = <<>>)

\* A trend over two days fetched dates of the window of the trend that
\* followed, for the other currency over one day; that one was computed from
\* the store, with no trend cache entry for it and no remote call.
C15_Witness ==
    /\ C15_Case /\ ~TrendWasCached /\ ~last.io.read_fail
    /\ last.args.period_days < prev.args.period_days
    /\ \E i \in 1..Len(prev.api_calls) : InRange(prev.api_calls[i], last.args.period_days)
    /\ last.raised = "none" /\ last.api_calls = <<>>
    /\ Len(last.ret.dates) = last.args.period_days + 1

\* ---------------------------------------------------------------------- C16
\* The last resolve returned the data of the memory snapshot it found, made no
\* remote call and left the snapshot and the store as they were.
AnsweredFromMemory ==
    /\ last.raised = "none" /\ last.api_calls = <<>>
    /\ last.pre.w.cached_data # None
    /\ last.ret = last.pre.w.cached_data[1]
    /\ World = last.pre.w

\* C16 as stated: a non-forced resolve(D) is answered from the memory snapshot
\* exactly when a snapshot exists, its date is D and its age is below 300
\* seconds.
C16_MemoryWhenSnapshotExists ==
    NonForced =>
        (AnsweredFromMemory <=>
            /\ last.pre.w.cached_data # None
            /\ last.pre.w.cached_date = <<last.args.date>>
            /\ last.t - last.pre.w.last_api_call_time[1] < CACHE_DURATION)

\* C16 amended: ... exactly when a snapshot exists, is not the empty object,
\* its date is D and its age is below 300 seconds; whether the store can be
\* read makes no difference then.
C16_MemoryWhenSnapshotHoldsData ==
    NonForced =>
        (AnsweredFromMemory <=> SnapshotLive(last.pre.w, last.t, last.args.date))

\* A live snapshot answered while the store could not be read.
C16_Witness ==
    /\ NonForced /\ last.io.read_fail
    /\ SnapshotLive(last.pre.w, last.t, last.args.date)
    /\ AnsweredFromMemory

\* ---------------------------------------------------------------------- C17
\* The last resolve left the store's map for its date as the memory snapshot,
\* stamped with the time of the request, and returned it without a remote call.
AnsweredFromStore ==
    /\ last.raised = "none" /\ last.api_calls = <<>>
    /\ last.ret = Dict(last.pre.w.rates[last.args.date])
    /\ cached_data = <<Dict(last.pre.w.rates[last.args.date])>>
    /\ cached_date = <<last.args.date>>
    /\ last_api_call_time = <<last.t>>
    /\ rates = last.pre.w.rates /\ metadata = last.pre.w.metadata

\* C17 as stated: a non-forced resolve(D) that misses the memory snapshot while
\* the store holds records for D makes no remote call, returns the store's map
\* and makes it the memory snapshot (D, map, now).
C17_StoreHitAlways ==
    (NonForced /\ ~SnapshotLive(last.pre.w, last.t, last.args.date)
              /\ HadRecord(last.args.date))
    => AnsweredFromStore

\* C17 amended: ... provided the store read does not fail.
C17_StoreHitIfRead ==
    (NonForced /\ ~SnapshotLive(last.pre.w, last.t, last.args.date)
              /\ HadRecord(last.args.date) /\ ~last.io.read_fail)
    => AnsweredFromStore

\* The store's map replaced a snapshot of another date and of other data.
C17_Witness ==
    /\ NonForced /\ HadRecord(last.args.date) /\ ~last.io.read_fail
    /\ last.pre.w.cached_data # None
    /\ last.pre.w.cached_date # <<last.args.date>>
    /\ last.pre.w.cached_data # cached_data
    /\ AnsweredFromStore

\* ---------------------------------------------------------------------- C18
\* C18: a store read that fails during a non-forced resolve(D) raises nothing
\* to the caller; resolve goes on to the remote call, whose outcome is the
\* outcome of resolve.  A range query that fails during a trend computation
\* raises nothing either, and every date of the range is fetched.
C18_ReadFailureIsMiss ==
    /\ (NonForced /\ ~SnapshotLive(last.pre.w, last.t, last.args.date)
                 /\ last.io.read_fail) =>
          /\ last.api_calls = <<last.args.date>>
          /\ last.raised = (IF last.io.status # "ok" THEN last.io.status
                            ELSE IF last.io.data = BadJson THEN "AttributeError"
                            ELSE "none")
          /\ last.raised = "none" => last.ret = last.io.data
    /\ (IsTrend /\ ~TrendWasCached /\ last.io.read_fail) =>
          /\ CallsAre(LAMBDA d : TRUE)
          /\ last.args.currency \in supported_currencies => last.raised = "none"

\* The store held records for the date, could not be read, and the remote
\* source answered.
C18_Witness ==
    /\ NonForced /\ last.io.read_fail /\ HadRecord(last.args.date)
    /\ ~SnapshotLive(last.pre.w, last.t, last.args.date)
    /\ last.api_calls = <<last.args.date>>
    /\ last.raised = "none" /\ last.ret = last.io.data

\* ---------------------------------------------------------------------- C19
\* The remote call of the last resolve gave a dict with rates and the store
\* write that followed failed.
RemoteOkWriteFailed ==
    /\ IsResolve /\ last.api_calls # <<>>
    /\ last.io.status = "ok" /\ last.io.data.type = "dict"
    /\ DOMAIN last.io.data.tasas # {}
    /\ last.io.write_fail

\* C19: when the remote call of resolve succeeds and the store write fails,
\* resolve returns the fetched data, the memory snapshot holds that data for
\* date D, and the store is as it was before the call.
C19_WriteFailureKeepsResult ==
    RemoteOkWriteFailed =>
        /\ last.raised = "none"
        /\ last.ret = last.io.data
        /\ cached_data = <<last.io.data>>
        /\ cached_date = <<last.args.date>>
        /\ last_api_call_time = <<last.t>>
        /\ rates = last.pre.w.rates /\ metadata = last.pre.w.metadata

\* The write that failed would have changed the store.
C19_Witness ==
    /\ RemoteOkWriteFailed
    /\ last.raised = "none" /\ last.ret = last.io.data
    /\ last.pre.w.rates[last.args.date] # last.io.data.tasas
    /\ rates = last.pre.w.rates

\* ---------------------------------------------------------------------- C20
\* The last trend request returned the trend cache entry of its (currency,
\* period), made no remote call and changed nothing.
AnsweredFromTrendCache ==
    /\ <<last.args.currency, last.args.period_days>> \in DOMAIN last.pre.tc
    /\ last.raised = "none" /\ last.api_calls = <<>>
    /\ last.ret = last.pre.tc[<<last.args.currency, last.args.period_days>>]
    /\ NothingChanged

\* C20: trend(c, n) returns the cached entry for (c, n), reading no store and
\* calling no remote source, exactly when that entry exists and is younger
\* than 300 seconds, its age being measured from its own creation: entries of
\* other keys, older or younger, make no difference.
C20_TrendCacheExactlyWhenFresh ==
    IsTrend => (AnsweredFromTrendCache <=> TrendWasCached)

\* The trend cache held an expired entry and a fresh one; the request for the
\* fresh one was answered from the cache.
C20_Witness ==
    /\ IsTrend /\ TrendWasCached /\ AnsweredFromTrendCache
    /\ \E k \in DOMAIN last.pre.tc :
          last.t - last.pre.tc[k].timestamp >= CACHE_DURATION
\* ------------------------------------------- vocabulary of the trend claims
\* The last request was a trend computation (not answered from the trend
\* cache) that returned.
TrendComputed == IsTrend /\ ~TrendWasCached /\ last.raised = "none"

\* The forced fetch of date d in the last trend request raised.
FetchFailed(d) ==
    /\ d \in DOMAIN last.io.ios
    /\ \/ last.io.ios[d].status # "ok"
       \/ last.io.ios[d].data.type = "list"

\* The forced fetch of date d in the last trend request gave a rate of c.
FetchGave(d, c) ==
    /\ d \in DOMAIN last.io.ios
    /\ last.io.ios[d].status = "ok"
    /\ last.io.ios[d].data.type = "dict"
    /\ c \in DOMAIN last.io.ios[d].data.tasas

\* The range query of the last trend request gave a rate of c for date d.
KnownBefore(d, c) == ~last.io.read_fail /\ c \in DOMAIN last.pre.w.rates[d]

\* A value of c for date d is known after the backfill, and which one: the
\* response's where the response has one, else the store's.
Known(d, c) == FetchGave(d, c) \/ KnownBefore(d, c)
ValueAfter(d, c) ==
    IF FetchGave(d, c) THEN last.io.ios[d].data.tasas[c] ELSE last.pre.w.rates[d][c]

InSeries(s, d) == \E i \in 1..Len(s.dates) : s.dates[i] = d

\* Series s holds exactly the dates of the last request's range with a known
\* value of c, ascending, each with its value.
SeriesIs(s, c) ==
    /\ Len(s.dates) = Len(s.rates)
    /\ StrictlyAscending(s.dates)
    /\ \A d \in Dates :
          InSeries(s, d) <=> (InRange(d, last.args.period_days) /\ Known(d, c))
    /\ \A i \in 1..Len(s.dates) : s.rates[i] = ValueAfter(s.dates[i], c)

\* The remote calls of the last trend request are those of its backfill, one
\* per missing date.
BackfillCallsOnly ==
    IF last.io.read_fail THEN CallsAre(LAMBDA d : TRUE) ELSE CallsAre(Lacked)

\* ---------------------------------------------------------------------- C21
\* C21 as stated: when a non-cached trend(c, n) computation completes, the
\* trend cache holds an entry for (c, n) equal to the returned result and an
\* entry for (c', n) for every other tracked currency c'.
C21_EveryCurrencyCached ==
    TrendComputed =>
        /\ <<last.args.currency, last.args.period_days>> \in DOMAIN trend_cache
        /\ trend_cache[<<last.args.currency, last.args.period_days>>] = last.ret
        /\ \A c \in supported_currencies :
              <<c, last.args.period_days>> \in DOMAIN trend_cache

\* The trend cache entry of key k is as the last request found it.
EntryUntouched(k) ==
    /\ k \in DOMAIN trend_cache <=> k \in DOMAIN last.pre.tc
    /\ k \in DOMAIN trend_cache => trend_cache[k] = last.pre.tc[k]

\* C21 amended: when a non-cached trend(c, n) computation completes with a
\* non-empty series, the trend cache holds an entry for (c, n) equal to the
\* returned result, and for every other tracked currency c' with a known value
\* on some date of the range an entry for (c', n) holding the series of c',
\* all derived from the data gathered for this call (the remote calls are
\* those of the backfill); the entry of a currency without a known value, and
\* every entry when the returned series is empty, is left as it was.
C21_CachedWhereSeriesNonEmpty ==
    TrendComputed =>
        /\ BackfillCallsOnly
        /\ \A k \in (DOMAIN trend_cache \cup DOMAIN last.pre.tc) :
              k[2] # last.args.period_days => EntryUntouched(k)
        /\ IF last.ret.dates = <<>>
           THEN trend_cache = last.pre.tc
           ELSE /\ <<last.args.currency, last.args.period_days>> \in DOMAIN trend_cache
                /\ trend_cache[<<last.args.currency, last.args.period_days>>] = last.ret
                /\ \A c \in supported_currencies \ {last.args.currency} :
                      IF \E d \in Dates : InRange(d, last.args.period_days) /\ Known(d, c)
                      THEN /\ <<c, last.args.period_days>> \in DOMAIN trend_cache
                           /\ SeriesIs(trend_cache[<<c, last.args.period_days>>], c)
                           /\ trend_cache[<<c, last.args.period_days>>].timestamp = last.t
                      ELSE EntryUntouched(<<c, last.args.period_days>>)

\* A trend computation for one currency cached the series of the other one
\* too, the two series covering different dates.
C21_Witness ==
    /\ TrendComputed /\ last.ret.dates # <<>>
    /\ \E c \in supported_currencies \ {last.args.currency} :
          /\ <<c, last.args.period_days>> \in DOMAIN trend_cache
          /\ <<c, last.args.period_days>> \notin DOMAIN last.pre.tc
          /\ trend_cache[<<c, last.args.period_days>>].dates # last.ret.dates
          /\ trend_cache[<<c, last.args.period_days>>].dates # <<>>

\* ---------------------------------------------------------------------- C22
\* C22: if the forced fetch of a missing date fails during the backfill of a
\* trend for a tracked currency, trend still returns, every missing date is
\* fetched, the failed date's store rows are as before, and the failed date is
\* in the series exactly when the store had its value, with that value.
C22_FailedFetchSwallowed ==
    (IsTrend /\ ~TrendWasCached /\ last.args.currency \in supported_currencies) =>
        \A d \in Dates :
           FetchFailed(d) =>
              /\ last.raised = "none"
              /\ BackfillCallsOnly
              /\ rates[d] = last.pre.w.rates[d]
              /\ InSeries(last.ret, d) <=> KnownBefore(d, last.args.currency)
              /\ \A i \in 1..Len(last.ret.dates) :
                    last.ret.dates[i] = d =>
                       last.ret.rates[i] = last.pre.w.rates[d][last.args.currency]

\* The fetch of the first of several missing dates failed, the later ones were
\* fetched and the series holds them but not the failed date.
C22_Witness ==
    /\ IsTrend /\ ~TrendWasCached /\ last.raised = "none"
    /\ Len(last.api_calls) >= 2
    /\ FetchFailed(last.api_calls[1])
    /\ ~InSeries(last.ret, last.api_calls[1])
    /\ InSeries(last.ret, last.api_calls[2])

\* ---------------------------------------------------------------------- C23
\* C23: the series a non-cached trend(c, n) returns for a tracked currency c
\* holds exactly the dates of the range for which a value of c is known after
\* the backfill (from the store or from a response), ascending, each paired
\* at the same index with that value.
C23_SeriesIsKnownDates ==
    TrendComputed => SeriesIs(last.ret, last.args.currency)

\* A series with a gap: a date between two returned dates is absent, and one
\* of the returned values came from the store, another from a response.
C23_Witness ==
    /\ TrendComputed
    /\ \E d1, d2, d3 \in Dates :
          /\ d1 < d2 /\ d2 < d3
          /\ InSeries(last.ret, d1) /\ ~InSeries(last.ret, d2) /\ InSeries(last.ret, d3)
    /\ \E d \in Dates : InSeries(last.ret, d) /\ FetchGave(d, last.args.currency)
    /\ \E d \in Dates : InSeries(last.ret, d) /\ ~FetchGave(d, last.args.currency)

\* ---------------------------------------------------------------------- C24
\* C24: a resolve whose remote response carries no rates (store_rates_in_db is
\* called with an empty currency->rate map) leaves the rates table and the
\* metadata table, last_update included, as they were.
C24_EmptyUpsertIsNoOp ==
    (IsResolve /\ FetchedOk(last) /\ DOMAIN last.ret.tasas = {}) =>
        /\ rates = last.pre.w.rates
        /\ metadata = last.pre.w.metadata

\* A forced resolve got a response without rates at a time later than the
\* store's last_update, and the store, which holds records, is unchanged.
C24_Witness ==
    /\ Forced /\ FetchedOk(last) /\ DOMAIN last.ret.tasas = {}
    /\ ~last.io.write_fail
    /\ HadRecord(last.args.date)
    /\ "last_update" \in DOMAIN metadata
    /\ metadata["last_update"] # last.t
    /\ rates = last.pre.w.rates

\* ---------------------------------------------------------------------- C26
\* C26: one resolve makes at most one remote call and one trend computation
\* makes at most one remote call per date, also when that call fails.
C26_NoRetry ==
    /\ IsResolve => Len(last.api_calls) <= 1
    /\ IsTrend =>
          \A i, j \in 1..Len(last.api_calls) :
             last.api_calls[i] = last.api_calls[j] => i = j

\* A resolve whose only remote call failed, followed by a trend computation
\* in which the fetch of a date failed and was made once.
C26_Witness ==
    /\ prev.op = "resolve" /\ prev.raised = "network" /\ Len(prev.api_calls) = 1
    /\ IsTrend /\ ~TrendWasCached
    /\ \E d \in Dates :
          /\ FetchFailed(d)
          /\ Cardinality({i \in 1..Len(last.api_calls) : last.api_calls[i] = d}) = 1
    /\ Len(last.api_calls) >= 2

\* ---------------------------------------------------------------------- C29
\* No store write of the last trend request failed.
NoWriteFailed == \A d \in DOMAIN last.io.ios : ~last.io.ios[d].write_fail

\* Series s holds exactly the dates of the last request's range that have a
\* (date, c) record in the store now, each with that record's rate.
AgreesWithStore(s, c) ==
    /\ \A d \in Dates :
          InSeries(s, d) <=> (InRange(d, last.args.period_days) /\ c \in DOMAIN rates[d])
    /\ \A i \in 1..Len(s.dates) : s.rates[i] = rates[s.dates[i]][c]

\* C29 as stated: after a non-cached trend(c, n) for a tracked currency c in
\* which every store write succeeds, the returned series agrees with the
\* store: its dates are exactly the dates of the range with a (date, c) record
\* after the call, and each rate equals that record's rate.
C29_SeriesAgreesWithStore ==
    (TrendComputed /\ NoWriteFailed) => AgreesWithStore(last.ret, last.args.currency)

\* C29 amended: ... in which the range query of the store and every store
\* write succeed, the returned series agrees with the store.
C29_SeriesAgreesWithStoreIfRead ==
    (TrendComputed /\ NoWriteFailed /\ ~last.io.read_fail) =>
        AgreesWithStore(last.ret, last.args.currency)

\* A series that agrees with the store: one of its rates was fetched by this
\* call and replaced a different stored rate, another date of the range has
\* no record and is absent.
C29_Witness ==
    /\ TrendComputed /\ NoWriteFailed /\ ~last.io.read_fail
    /\ \E d \in Dates :
          /\ FetchGave(d, last.args.currency)
          /\ KnownBefore(d, last.args.currency)
          /\ last.pre.w.rates[d][last.args.currency] # rates[d][last.args.currency]
          /\ InSeries(last.ret, d)
    /\ \E d \in Dates :
          /\ InRange(d, last.args.period_days)
          /\ last.args.currency \notin DOMAIN rates[d]
          /\ ~InSeries(last.ret, d)

\* ----------------------------------------- vocabulary of the session claims
IsShow == last.op = "show"
IsSetPath == last.op = "set_db_path"

\* The (date, currency) keys of a rates table.
KeysOf(tbl) == UNION {{<<d, c>> : c \in DOMAIN tbl[d]} : d \in Dates}

\* Every key the active store held when the last request began is still in
\* the active store.
KeysKept == KeysOf(last.pre.w.rates) \subseteq KeysOf(rates)

\* The active store when the last request began.
OldStore == [rates |-> last.pre.w.rates, metadata |-> last.pre.w.metadata]

HoldsOldRows ==
    /\ \A d \in Dates : \A c \in DOMAIN OldStore.rates[d] :
          c \in DOMAIN rates[d] /\ rates[d][c] = OldStore.rates[d][c]
    /\ \A k \in DOMAIN OldStore.metadata :
          k \in DOMAIN metadata /\ metadata[k] = OldStore.metadata[k]

CachesUntouched ==
    /\ cached_data = last.pre.w.cached_data
    /\ cached_date = last.pre.w.cached_date
    /\ last_api_call_time = last.pre.w.last_api_call_time
    /\ trend_cache = last.pre.tc

\* The request before the last was a db clear that emptied the store.
AfterClear == prev.op = "clear" /\ prev.raised = "none"

\* The last request returned what was cached before the clear, without a
\* remote call.
ShowFromSnapshotBeforeClear ==
    last.raised = "none" /\ last.ret = prev.pre.w.cached_data[1] /\ last.api_calls = <<>>
TrendFromCacheBeforeClear ==
    /\ last.raised = "none" /\ last.api_calls = <<>>
    /\ last.ret = prev.pre.tc[<<last.args.currency, last.args.period_days>>]

\* C28 as stated: db clear, db backup, db restore and db rebuild leave the
\* memory snapshot and every trend cache entry unchanged; so a non-forced
\* resolve(D) or a trend(c, n) issued within 300 seconds after a clear still
\* returns the data cached before the clear.
C28_CachedWithin300sOfClear ==
    /\ last.op \in {"clear", "backup", "restore", "rebuild"} => CachesUntouched
    /\ (/\ AfterClear /\ IsShow
        /\ last.t - prev.t < CACHE_DURATION
        /\ Truthy(prev.pre.w.cached_data)
        /\ prev.pre.w.cached_date = <<last.args.date>>)
       => ShowFromSnapshotBeforeClear
    /\ (/\ AfterClear /\ IsTrend
        /\ last.t - prev.t < CACHE_DURATION
        /\ <<last.args.currency, last.args.period_days>> \in DOMAIN prev.pre.tc)
       => TrendFromCacheBeforeClear

\* C28 amended: ... so a non-forced resolve(D) or a trend(c, n) issued after a
\* clear still returns the data cached before the clear as long as the cached
\* snapshot or trend cache entry itself is younger than 300 seconds (the age
\* counts from when it was cached, not from the clear).
C28_CachedWhileFresh ==
    /\ last.op \in {"clear", "backup", "restore", "rebuild"} => CachesUntouched
    /\ (/\ AfterClear /\ IsShow
        /\ SnapshotLive(prev.pre.w, last.t, last.args.date))
       => ShowFromSnapshotBeforeClear
    /\ (/\ AfterClear /\ IsTrend
        /\ <<last.args.currency, last.args.period_days>> \in DOMAIN prev.pre.tc
        /\ last.t - prev.pre.tc[<<last.args.currency, last.args.period_days>>].timestamp
              < CACHE_DURATION)
       => TrendFromCacheBeforeClear

\* After a clear of a store that held the date, the query for that date was
\* answered with the snapshot cached before the clear, the store being empty.
C28_Witness ==
    /\ AfterClear /\ IsShow
    /\ SnapshotLive(prev.pre.w, last.t, last.args.date)
    /\ DOMAIN prev.pre.w.rates[last.args.date] # {}
    /\ TablesEmpty
    /\ last.name = "Rates"
    /\ last.ret = prev.pre.w.cached_data[1]

\* ---------------------------------------------------------------------- C30
\* C30: with no store read failing, whenever the resolve of a show-all-rates
\* query reaches the remote call the store holds no record for its date, the
\* "Offline Mode" fallback never yields data and a network error ends in
\* "Network Error".
C30_OfflineNeverYields ==
    (IsShow /\ ~last.io.read_fail /\ ~last.env.read_fail) =>
        /\ last.api_calls # <<>> => ~HadRecord(last.args.date)
        /\ last.name # "Offline Mode"
        /\ last.raised = "network" => last.name = "Network Error"

\* A query for a date the store lacks, the store holding other dates, met a
\* network error with the store readable and ended in "Network Error".
C30_Witness ==
    /\ IsShow /\ ~last.io.read_fail /\ ~last.env.read_fail
    /\ last.raised = "network"
    /\ last.name = "Network Error"
    /\ \E d \in Dates : HadRecord(d)
    /\ ~HadRecord(last.args.date)

\* The fallback yields data when the first store read had failed.
OfflineAfterReadFailure ==
    /\ IsShow /\ last.io.read_fail /\ last.name = "Offline Mode"
    /\ last.shown = rates[last.args.date]
====
